---- MODULE Spec2Model ----
(***************************************************************************)
(* The ingestion and answering pipeline of the RAG chatbot:                *)
(*   api.py                process_docs, ask_question (Flask handlers)     *)
(*   document_processor.py process_documents (the ingestion report)        *)
(*   rag_system.py         RAGSystem.initialize_vector_store,              *)
(*                         get_retriever, query                            *)
(*   utils.py              list_documents (the listing of PDF_DIR)         *)
(*   agents.py             the agents constructed at module initialisation *)
(*   stremlit_app.py       the upload page that writes PDFs into PDF_DIR   *)
(* The filesystem (PDF directory, vector store directory), the in-memory   *)
(* vector_store handle and the response of the last request are the state. *)
(* The embedding provider, the generative model and the Chroma storage are *)
(* collaborators: each call to them either succeeds or raises, chosen by   *)
(* the environment per request.                                            *)
(* Spec handles each request in one step, from the state after the module  *)
(* initialisation. SpecStartup starts at the launch of the process and     *)
(* takes the module initialisation statement by statement. SpecConcurrent  *)
(* takes the requests statement by statement on NumThreads threads.        *)
(***************************************************************************)
EXTENDS Integers, Sequences, FiniteSets, TLC

\* ------------------------------------------------------------------ bounds
\* How many files the environment writes into the PDF directory in one run
\* of the model.
MaxUploads == 2
\* How many requests the server handles at the same time.
NumThreads == 2

\* ------------------------------------------------------- program constants
chunk_size == 1000
chunk_overlap == 200
PreviewChars == 150
MarkerChars == 3
TopK == 5

Min(a, b) == IF a <= b THEN a ELSE b
Abs(a) == IF a < 0 THEN -a ELSE a

\* -------------------------------------------------------------- file names
\* A file name is its stem and its extension: a.pdf, b.pdf, C.PDF.
FileA == [stem |-> "a", ext |-> "pdf"]
FileB == [stem |-> "b", ext |-> "pdf"]
FileC == [stem |-> "C", ext |-> "PDF"]
Names == {FileA, FileB, FileC}
\* The order in which the filesystem lists the names (os.listdir and
\* glob.glob return the directory's own order).
NameOrder == <<FileA, FileB, FileC>>

\* str.lower() on the extensions that occur.
Lower(s) == CASE s = "PDF" -> "pdf"
              [] s = "Pdf" -> "pdf"
              [] OTHER -> s

\* f.lower().endswith('.pdf')
EndsWithPdfLower(name) == Lower(name.ext) = "pdf"

\* glob "*.pdf": fnmatch on the normcased name, which is case-insensitive
\* only where the platform folds case (no modelled name starts with a dot,
\* which the pattern would not match either).
GlobStarPdf(name, fold) ==
    IF fold THEN Lower(name.ext) = "pdf" ELSE name.ext = "pdf"

\* ------------------------------------------------------------ file content
\* A file is absent, or holds bytes PyPDFLoader cannot read, or is a PDF
\* whose pages hold text; a page is modelled by the length of its text.
Absent == [kind |-> "absent"]
Unreadable == [kind |-> "file", readable |-> FALSE, pages |-> <<>>]
Pdf(pages) == [kind |-> "file", readable |-> TRUE, pages |-> pages]
\* a page without text and a short page; a long page and a short page
DocTexts == {<<0, 150>>, <<1950, 120>>}
Contents == {Unreadable} \cup {Pdf(p) : p \in DocTexts}

\* ----------------------------------------------------------------- chunker
\* RecursiveCharacterTextSplitter(chunk_size, chunk_overlap, len) on a text
\* without separators: windows of chunk_size characters, each starting
\* chunk_size - chunk_overlap after the previous one; an empty text gives no
\* chunk. The result is the sequence of the chunks' lengths.
RECURSIVE SplitFrom(_, _)
SplitFrom(start, n) ==
    IF n - start <= 0 THEN <<>>
    ELSE IF n - start <= chunk_size THEN <<n - start>>
    ELSE <<chunk_size>> \o SplitFrom(start + chunk_size - chunk_overlap, n)
split_text(n) == SplitFrom(0, n)

\* A chunk: its text (identified by where it comes from, with its length)
\* and its metadata (source file, page).
Chunk(name, page, k, n) ==
    [text |-> [of |-> <<name.stem, page, k>>, len |-> n],
     metadata |-> [source |-> name, page |-> page]]

\* split_documents on the pages of one file, page by page.
RECURSIVE SplitPagesFrom(_, _, _)
SplitPagesFrom(name, pages, p) ==
    IF p > Len(pages) THEN <<>>
    ELSE LET lens == split_text(pages[p])
         IN  [k \in 1..Len(lens) |-> Chunk(name, p - 1, k, lens[k])]
             \o SplitPagesFrom(name, pages, p + 1)
split_documents(name, pages) == SplitPagesFrom(name, pages, 1)

\* ------------------------------------------------------------------- state
VARIABLES
    caseFold,      \* the platform matches file names without regard to case
    dirExists,     \* PDF_DIR exists
    pdf_dir,       \* PDF_DIR: name -> Absent or a content
    storeDir,      \* vector_store_path: [files, entries]
    vector_store,  \* RAGSystem.vector_store: None or a handle
    last,          \* the response of the last request, with what it ran on
    uploads,       \* files written so far
    storePathExists, \* the directory vector_store_path exists
    boot,          \* the API process: where its module initialisation is
    threads        \* the requests in flight, one per server thread

vars == <<caseFold, dirExists, pdf_dir, storeDir, vector_store, last, uploads,
          storePathExists, boot, threads>>

\* What a request that is handled in one step, an upload and a removal of
\* the directory leave alone.
fixed == <<caseFold, storePathExists, boot, threads>>

None == [handle |-> FALSE]
Handle(entries) == [handle |-> TRUE, entries |-> entries]
NoRequest == [op |-> "none"]

\* The names present in PDF_DIR.
Present == {n \in Names : pdf_dir[n] # Absent}

\* The names of a set in the filesystem's listing order.
RECURSIVE ListFrom(_, _)
ListFrom(S, i) ==
    IF i > Len(NameOrder) THEN <<>>
    ELSE (IF NameOrder[i] \in S THEN <<NameOrder[i]>> ELSE <<>>)
         \o ListFrom(S, i + 1)
Listing(S) == ListFrom(S, 1)

\* ------------------------------------------------------- process_documents
\* PyPDFLoader(path).load(): raises on a file it cannot read, else one
\* document per page.
CanLoad(name) == pdf_dir[name].readable

\* glob.glob(os.path.join(pdf_directory, "*.pdf"))
GlobFiles == Listing({n \in Present : GlobStarPdf(n, caseFold)})

\* One pass of the loop over pdf_files: the try body counts the file as
\* processed and records its chunks and pages, the except clause counts it
\* as failed and records the error.
ProcessOne(acc, name) ==
    IF CanLoad(name)
    THEN [processed |-> acc.processed + 1,
          failed |-> acc.failed,
          files |-> Append(acc.files,
                      [filename |-> name, status |-> "success",
                       chunks |-> Len(split_documents(name, pdf_dir[name].pages)),
                       pages |-> Len(pdf_dir[name].pages)])]
    ELSE [processed |-> acc.processed,
          failed |-> acc.failed + 1,
          files |-> Append(acc.files,
                      [filename |-> name, status |-> "failed",
                       error |-> "cannot read"])]

RECURSIVE ProcessLoop(_, _, _)
ProcessLoop(files, i, acc) ==
    IF i > Len(files) THEN acc
    ELSE ProcessLoop(files, i + 1, ProcessOne(acc, files[i]))

\* process_documents(PDF_DIR). The fallback locations it tries when the
\* directory is missing are the candidates api.find_pdf_directory chose
\* PDF_DIR from, so a missing PDF_DIR ends in FileNotFoundError.
process_documents ==
    IF ~dirExists
    THEN [raised |-> TRUE, error |-> "FileNotFoundError"]
    ELSE IF GlobFiles = <<>>
    THEN [raised |-> FALSE,
          report |-> [processed |-> 0, failed |-> 0, files |-> <<>>]]
    ELSE [raised |-> FALSE,
          report |-> ProcessLoop(GlobFiles, 1,
                        [processed |-> 0, failed |-> 0, files |-> <<>>])]

\* ------------------------------------------ RAGSystem.initialize_vector_store
\* What the collaborators do during one request: all of them work, or one
\* call raises (the first call that raises ends the request, so one is
\* enough): opening the stored index, embedding the documents (before or
\* after Chroma wrote into the store directory), persisting (likewise),
\* embedding the question, the generative model.
Envs == {"ok", "load", "embed_clean", "embed_touched", "persist_clean",
         "persist_touched", "search", "llm"}

Call(what, name) == [call |-> what, file |-> name]
NoFile == [stem |-> "", ext |-> ""]

\* [f for f in os.listdir(self.pdf_dir) if f.lower().endswith('.pdf')]
ListdirPdfFiles == Listing({n \in Present : EndsWithPdfLower(n)})

\* The loop over pdf_files of the create branch: load, split, extend. There
\* is no try around the body: the first file that cannot be loaded raises
\* out of the loop.
RECURSIVE BuildLoop(_, _, _, _)
BuildLoop(files, i, documents, calls) ==
    IF i > Len(files)
    THEN [raised |-> FALSE, documents |-> documents, calls |-> calls]
    ELSE IF ~CanLoad(files[i])
    THEN [raised |-> TRUE, documents |-> documents,
          calls |-> Append(calls, Call("load_failed", files[i]))]
    ELSE BuildLoop(files, i + 1,
            documents \o split_documents(files[i], pdf_dir[files[i]].pages),
            calls \o <<Call("load", files[i]), Call("split", files[i])>>)

\* The outcome of a call: whether it raised, the store directory and the
\* handle it leaves, the calls it made, in order, and the documents it
\* inserted into the index.
Outcome(raised, error, dir, vs, calls, inserted) ==
    [raised |-> raised, error |-> error, storeDir |-> dir,
     vector_store |-> vs, calls |-> calls, inserted |-> inserted]

\* The branch that loads an existing store.
LoadStore(env) ==
    IF env # "load"
    THEN Outcome(FALSE, "", storeDir, Handle(storeDir.entries),
                 <<Call("Chroma", NoFile)>>, <<>>)
    ELSE Outcome(TRUE, "StorageError", storeDir, vector_store,
                 <<Call("Chroma", NoFile)>>, <<>>)

\* CreateStore returning after from_documents, without the call of persist.
CreateStore_NoPersist(env, documents, calls) ==
    LET c1 == Append(calls, Call("from_documents", NoFile))
        touched == [files |-> TRUE, entries |-> <<>>]
    IN  CASE env = "embed_clean" ->
               Outcome(TRUE, "ProviderError", storeDir, vector_store, c1, <<>>)
          [] env = "embed_touched" ->
               Outcome(TRUE, "ProviderError", touched, vector_store, c1, <<>>)
          [] OTHER ->
               Outcome(FALSE, "", storeDir, Handle(documents), c1, documents)

\* Chroma.from_documents and persist, after the loop collected documents.
CreateStore(env, documents, calls) ==
    LET c1 == Append(calls, Call("from_documents", NoFile))
        c2 == Append(c1, Call("persist", NoFile))
        touched == [files |-> TRUE, entries |-> <<>>]
    IN  CASE env = "embed_clean" ->
               Outcome(TRUE, "ProviderError", storeDir, vector_store, c1, <<>>)
          [] env = "embed_touched" ->
               Outcome(TRUE, "ProviderError", touched, vector_store, c1, <<>>)
          [] env = "persist_clean" ->
               Outcome(TRUE, "StorageError", storeDir, Handle(documents), c2,
                       documents)
          [] env = "persist_touched" ->
               Outcome(TRUE, "StorageError", touched, Handle(documents), c2,
                       documents)
          [] OTHER ->
               Outcome(FALSE, "", [files |-> TRUE, entries |-> documents],
                       Handle(documents), c2, documents)

\* BuildStore without the check that raises when no PDF is found.
BuildStore_NoEmptyCheck(env) ==
    IF ~dirExists
    THEN Outcome(TRUE, "FileNotFoundError", storeDir, vector_store, <<>>,
                 <<>>)
    ELSE LET loop == BuildLoop(ListdirPdfFiles, 1, <<>>, <<>>)
         IN  IF loop.raised
             THEN Outcome(TRUE, "DocumentError", storeDir, vector_store,
                          loop.calls, <<>>)
             ELSE CreateStore(env, loop.documents, loop.calls)

\* The branch that creates a new store from the PDFs of self.pdf_dir.
BuildStore(env) ==
    IF ~dirExists
    THEN Outcome(TRUE, "FileNotFoundError", storeDir, vector_store, <<>>,
                 <<>>)
    ELSE IF ListdirPdfFiles = <<>>
    THEN Outcome(TRUE, "ValueError: No PDF files found", storeDir,
                 vector_store, <<>>, <<>>)
    ELSE LET loop == BuildLoop(ListdirPdfFiles, 1, <<>>, <<>>)
         IN  IF loop.raised
             THEN Outcome(TRUE, "DocumentError", storeDir, vector_store,
                          loop.calls, <<>>)
             ELSE CreateStore(env, loop.documents, loop.calls)

\* os.path.exists(self.vector_store_path) and os.listdir(...)
StoreExists == storeDir.files

initialize_vector_store(env) ==
    IF StoreExists THEN LoadStore(env) ELSE BuildStore(env)

\* ---------------------------------------------------------- RAGSystem.query
\* The embedding provider, as a fixed function from a text to a point; the
\* distance of two points stands for their dissimilarity.
Embed(text) == (text.len + Len(text.of[1])) % 7
Queries == {"", "what", "why"}
EmbedQuery(q) == CASE q = "what" -> 1
                   [] q = "why" -> 5
                   [] OTHER -> 0
Distance(qv, entry) == Abs(qv - Embed(entry.text))

\* Similarity search: the k entries nearest to the query, nearest first, an
\* earlier inserted entry before a later one at the same distance.
Nearest(entries, S, qv) ==
    CHOOSE i \in S : \A j \in S :
        \/ Distance(qv, entries[i]) < Distance(qv, entries[j])
        \/ /\ Distance(qv, entries[i]) = Distance(qv, entries[j])
           /\ i <= j

RECURSIVE SearchFrom(_, _, _, _)
SearchFrom(entries, S, qv, k) ==
    IF k = 0 \/ S = {} THEN <<>>
    ELSE LET i == Nearest(entries, S, qv)
         IN  <<entries[i]>> \o SearchFrom(entries, S \ {i}, qv, k - 1)

\* A retriever that returns every entry of the index, nearest first.
Retrieve_All(entries, q) ==
    SearchFrom(entries, DOMAIN entries, EmbedQuery(q), Len(entries))

\* vector_store.as_retriever(search_type="similarity", search_kwargs={"k": 5})
Retrieve(entries, q) ==
    SearchFrom(entries, DOMAIN entries, EmbedQuery(q), TopK)

\* doc.page_content[:150] + "...": the slice keeps the first characters of
\* the text (all of it when it is shorter), and the marker is appended. A
\* string built this way is the text it starts with and the literal that
\* follows it.
Slice_NoCut(text, n) == [of |-> text.of, len |-> text.len]
Slice(text, n) == [of |-> text.of, len |-> Min(text.len, n)]
Concat(text, literal) == [head |-> text, tail |-> literal]
Preview(text) == Concat(Slice(text, PreviewChars), "...")
StrLen(content) ==
    content.head.len + (IF content.tail = "..." THEN MarkerChars ELSE 0)

\* source_info of one retrieved document
SourceInfo(doc) == [content |-> Preview(doc.text), metadata |-> doc.metadata]

\* SourcesLoop putting each source in front of the earlier ones.
RECURSIVE SourcesLoop_Prepend(_, _, _)
SourcesLoop_Prepend(docs, i, sources) ==
    IF i > Len(docs) THEN sources
    ELSE SourcesLoop_Prepend(docs, i + 1, <<SourceInfo(docs[i])>> \o sources)

\* The loop over result["source_documents"] that appends to sources.
RECURSIVE SourcesLoop(_, _, _)
SourcesLoop(docs, i, sources) ==
    IF i > Len(docs) THEN sources
    ELSE SourcesLoop(docs, i + 1, Append(sources, SourceInfo(docs[i])))

\* qa_chain returning an empty result when the model raises, instead of
\* raising.
qa_chain_Swallow(entries, q, env) ==
    IF env = "search"
    THEN [raised |-> TRUE, error |-> "ProviderError", llmCalls |-> 0,
          source_documents |-> <<>>, result |-> ""]
    ELSE IF env = "llm"
    THEN [raised |-> FALSE, error |-> "", llmCalls |-> 1,
          source_documents |-> Retrieve(entries, q), result |-> ""]
    ELSE [raised |-> FALSE, error |-> "", llmCalls |-> 1,
          source_documents |-> Retrieve(entries, q), result |-> "generated"]

\* The RetrievalQA "stuff" chain: retrieve, put the documents into the
\* prompt, call the model; it returns the result and the retrieved
\* documents, and raises what the retriever or the model raises.
qa_chain(entries, q, env) ==
    IF env = "search"
    THEN [raised |-> TRUE, error |-> "ProviderError", llmCalls |-> 0,
          source_documents |-> <<>>, result |-> ""]
    ELSE IF env = "llm"
    THEN [raised |-> TRUE, error |-> "ProviderError", llmCalls |-> 1,
          source_documents |-> Retrieve(entries, q), result |-> ""]
    ELSE [raised |-> FALSE, error |-> "", llmCalls |-> 1,
          source_documents |-> Retrieve(entries, q), result |-> "generated"]

\* get_retriever initializing the store on every call.
get_retriever_Always(env) == initialize_vector_store(env)

\* get_retriever: initialize the store when there is no handle yet.
get_retriever(env) ==
    IF vector_store = None
    THEN initialize_vector_store(env)
    ELSE Outcome(FALSE, "", storeDir, vector_store, <<>>, <<>>)

\* query(query_text): what it returns or raises, and the store and handle
\* it leaves.
query(q, env) ==
    LET r == get_retriever(env)
        chain == qa_chain(r.vector_store.entries, q, env)
        base == [storeDir |-> r.storeDir, vector_store |-> r.vector_store,
                 calls |-> r.calls, inserted |-> r.inserted]
    IN  IF r.raised
        THEN base @@ [raised |-> TRUE, error |-> r.error, llmCalls |-> 0,
                      retrieved |-> <<>>, answer |-> "", sources |-> <<>>]
        ELSE IF chain.raised
        THEN base @@ [raised |-> TRUE, error |-> chain.error,
                      llmCalls |-> chain.llmCalls,
                      retrieved |-> chain.source_documents,
                      answer |-> "", sources |-> <<>>]
        ELSE base @@ [raised |-> FALSE, error |-> "",
                      llmCalls |-> chain.llmCalls,
                      retrieved |-> chain.source_documents,
                      answer |-> chain.result,
                      sources |-> SourcesLoop(chain.source_documents, 1, <<>>)]

\* ---------------------------------------------------- utils.list_documents
\* [f for f in os.listdir(pdf_directory) if f.lower().endswith('.pdf')]
ListedPdfFiles == Listing({n \in Present : EndsWithPdfLower(n)})

\* What os.stat and the hash of the first bytes give for a file: its size
\* (the characters of its pages stand for its bytes), and a digest that
\* stands for the content it was computed from.
StSize(content) ==
    IF content.pages = <<>> THEN 0 ELSE content.pages[1] + content.pages[2]
SizeKb(content) == (StSize(content) * 100) \div 1024
generate_file_hash(content) == [sha256 |-> content.pages]

\* The metadata reads that can raise for one file (os.stat, open): none
\* raises, or those of one file do.
NoStatError == NoFile
StatErrors == {NoStatError} \cup Names

\* One pass of the loop over pdf_files: the try body appends the metadata,
\* the except clause appends the error.
ListOne(result, name, bad) ==
    IF name # bad
    THEN Append(result,
           [filename |-> name, size_kb |-> SizeKb(pdf_dir[name]),
            modified_date |-> "mtime",
            hash |-> generate_file_hash(pdf_dir[name])])
    ELSE Append(result, [filename |-> name, error |-> "OSError"])

\* ListLoop returning what it has when the metadata of a file cannot be
\* read.
RECURSIVE ListLoop_StopAtError(_, _, _, _)
ListLoop_StopAtError(files, i, result, bad) ==
    IF i > Len(files) \/ files[i] = bad THEN result
    ELSE ListLoop_StopAtError(files, i + 1, ListOne(result, files[i], bad),
                              bad)

RECURSIVE ListLoop(_, _, _, _)
ListLoop(files, i, result, bad) ==
    IF i > Len(files) THEN result
    ELSE ListLoop(files, i + 1, ListOne(result, files[i], bad), bad)

list_documents(bad) ==
    IF ~dirExists THEN <<>> ELSE ListLoop(ListedPdfFiles, 1, <<>>, bad)

\* ------------------------------------------- api.py module initialisation
\* os.getenv("GOOGLE_API_KEY"): None when the variable is unset, else its
\* value, which may be the empty string.
Keys == {"unset", "", "key"}

\* The test of the key left out.
ApiKeyOk_Always(key) == TRUE

\* `if not self.api_key: raise ValueError(...)`
ApiKeyOk(key) == key \notin {"unset", ""}

\* A process that was just launched, and one whose module initialisation
\* is complete: the embeddings handle and the model handle of RAGSystem are
\* built, both agents are constructed, Flask serves the routes.
Fresh(key) ==
    [pc |-> "find_pdf_directory", key |-> key, embeddings |-> FALSE,
     llm |-> FALSE, agents |-> 0]
Ready ==
    [pc |-> "serving", key |-> "key", embeddings |-> TRUE, llm |-> TRUE,
     agents |-> 2]

\* The routes are served once the module is initialised.
Serving == boot.pc = "serving"

\* No request is in flight on a server thread.
NoThreads == <<>>

\* ----------------------------------------------------------------- actions
\* The upload page saves a file into PDF_DIR, replacing one of that name.
\* The response of the last request is kept until the corpus next changes.
PutFile(name, content) ==
    /\ dirExists
    /\ uploads < MaxUploads
    /\ pdf_dir' = [pdf_dir EXCEPT ![name] = content]
    /\ uploads' = uploads + 1
    /\ last' = NoRequest
    /\ UNCHANGED <<fixed, dirExists, storeDir, vector_store>>

\* PDF_DIR is removed from outside.
RemoveDir ==
    /\ dirExists
    /\ dirExists' = FALSE
    /\ pdf_dir' = [n \in Names |-> Absent]
    /\ last' = NoRequest
    /\ UNCHANGED <<fixed, storeDir, vector_store, uploads>>

\* The API process starts again: find_pdf_directory creates PDF_DIR when it
\* is missing, RAGSystem.__init__ makes sure the store directory exists and
\* sets vector_store to None.
Restart ==
    /\ dirExists' = TRUE
    /\ vector_store' = None
    /\ last' = NoRequest
    /\ UNCHANGED <<fixed, pdf_dir, storeDir, uploads>>

\* POST /api/process-documents
process_docs(env) ==
    /\ Serving
    /\ \E result \in {process_documents}, init \in {initialize_vector_store(env)} :
       LET on == [op |-> "process", hadStore |-> StoreExists]
       IN  IF result.raised
           THEN /\ last' = on @@ [status |-> 500, message |-> result.error,
                                  calls |-> <<>>, inserted |-> <<>>]
                /\ UNCHANGED <<fixed, dirExists, pdf_dir, storeDir, vector_store,
                               uploads>>
           ELSE /\ storeDir' = init.storeDir
                /\ vector_store' = init.vector_store
                /\ last' = IF init.raised
                           THEN on @@ [status |-> 500, message |-> init.error,
                                       calls |-> init.calls,
                                       inserted |-> init.inserted]
                           ELSE on @@ [status |-> 200, details |-> result.report,
                                       calls |-> init.calls,
                                       inserted |-> init.inserted]
                /\ UNCHANGED <<fixed, dirExists, pdf_dir, uploads>>

\* POST /api/ask
ask_question(q, env) ==
    /\ Serving
    /\ \E response \in {query(q, env)} :
       LET on == [op |-> "ask", query |-> q, hadHandle |-> vector_store # None,
                  hadStore |-> StoreExists]
       IN  IF q = ""
           THEN /\ last' = on @@ [status |-> 400, message |-> "Query is required",
                                  llmCalls |-> 0, calls |-> <<>>,
                                  inserted |-> <<>>]
                /\ UNCHANGED <<fixed, dirExists, pdf_dir, storeDir, vector_store,
                               uploads>>
           ELSE /\ storeDir' = response.storeDir
                /\ vector_store' = response.vector_store
                /\ last' = IF response.raised
                           THEN on @@ [status |-> 500, message |-> response.error,
                                       llmCalls |-> response.llmCalls,
                                       calls |-> response.calls,
                                       inserted |-> response.inserted]
                           ELSE on @@ [status |-> 200,
                                       answer |-> response.answer,
                                       sources |-> response.sources,
                                       retrieved |-> response.retrieved,
                                       llmCalls |-> response.llmCalls,
                                       calls |-> response.calls,
                                       inserted |-> response.inserted]
                /\ UNCHANGED <<fixed, dirExists, pdf_dir, uploads>>

\* GET /api/documents. list_documents catches what the metadata of a file
\* raises, so the handler always answers 200 (os.listdir raising on a
\* directory that os.path.exists just saw is left out).
get_documents(bad) ==
    /\ Serving
    /\ last' = [op |-> "list", status |-> 200,
                documents |-> list_documents(bad)]
    /\ UNCHANGED <<fixed, dirExists, pdf_dir, storeDir, vector_store,
                   uploads>>

Upload == \E name \in Names, content \in Contents : PutFile(name, content)
ProcessDocs == \E env \in Envs : process_docs(env)
Ask == \E q \in Queries, env \in Envs : ask_question(q, env)
Documents == \E bad \in StatErrors : get_documents(bad)

Init ==
    /\ caseFold \in BOOLEAN
    /\ dirExists = TRUE
    /\ pdf_dir = [n \in Names |-> Absent]
    /\ storeDir = [files |-> FALSE, entries |-> <<>>]
    /\ vector_store = None
    /\ last = NoRequest
    /\ uploads = 0
    /\ storePathExists = TRUE
    /\ boot = Ready
    /\ threads = NoThreads

Next == Upload \/ RemoveDir \/ Restart \/ ProcessDocs \/ Ask \/ Documents

Spec == Init /\ [][Next]_vars

\* ------------------------------------------ the process from its launch on
\* What a statement of the module initialisation leaves alone.
Kept == <<caseFold, pdf_dir, storeDir, last, uploads, threads>>

\* `python api.py`: the process is launched, again after it ended with an
\* exception or was stopped, with the key its environment holds. The
\* memory of the earlier process is gone.
Launch(key) ==
    /\ boot.pc \in {"raised", "serving"}
    /\ boot' = Fresh(key)
    /\ vector_store' = None
    /\ last' = NoRequest
    /\ UNCHANGED <<caseFold, dirExists, pdf_dir, storeDir, uploads,
                   storePathExists, threads>>

\* PDF_DIR = find_pdf_directory(): the directory is created when missing.
FindPdfDirectory ==
    /\ boot.pc = "find_pdf_directory"
    /\ dirExists' = TRUE
    /\ boot' = [boot EXCEPT !.pc = "RAGSystem"]
    /\ UNCHANGED <<Kept, vector_store, storePathExists>>

\* RAGSystem.__init__, first statements: read the key, raise without it.
\* The exception ends the import of the module, and the process with it.
RagCheckKey ==
    /\ boot.pc = "RAGSystem"
    /\ boot' = [boot EXCEPT !.pc = IF ApiKeyOk(boot.key) THEN "embeddings"
                                   ELSE "raised"]
    /\ UNCHANGED <<Kept, dirExists, vector_store, storePathExists>>

\* genai.configure and the embeddings handle.
RagEmbeddings ==
    /\ boot.pc = "embeddings"
    /\ boot' = [boot EXCEPT !.pc = "makedirs", !.embeddings = TRUE]
    /\ UNCHANGED <<Kept, dirExists, vector_store, storePathExists>>

\* os.makedirs(self.vector_store_path, exist_ok=True)
RagMakedirs ==
    /\ boot.pc = "makedirs"
    /\ storePathExists' = TRUE
    /\ boot' = [boot EXCEPT !.pc = "llm"]
    /\ UNCHANGED <<Kept, dirExists, vector_store>>

\* The model handle, and self.vector_store = None.
RagLlm ==
    /\ boot.pc = "llm"
    /\ vector_store' = None
    /\ boot' = [boot EXCEPT !.pc = "qa_agent", !.llm = TRUE]
    /\ UNCHANGED <<Kept, dirExists, storePathExists>>

\* QuestionAnsweringAgent(rag_system): reads the key again, raises without
\* it, builds its own model handle.
QaAgentInit ==
    /\ boot.pc = "qa_agent"
    /\ boot' = IF ApiKeyOk(boot.key)
               THEN [boot EXCEPT !.pc = "analysis_agent", !.agents = 1]
               ELSE [boot EXCEPT !.pc = "raised"]
    /\ UNCHANGED <<Kept, dirExists, vector_store, storePathExists>>

\* DocumentAnalysisAgent(rag_system), likewise; then the routes are served.
AnalysisAgentInit ==
    /\ boot.pc = "analysis_agent"
    /\ boot' = IF ApiKeyOk(boot.key)
               THEN [boot EXCEPT !.pc = "serving", !.agents = 2]
               ELSE [boot EXCEPT !.pc = "raised"]
    /\ UNCHANGED <<Kept, dirExists, vector_store, storePathExists>>

Relaunch == \E key \in Keys : Launch(key)

\* Before the first launch: no source directory, no store directory, and
\* the key the environment holds.
StartInit ==
    /\ caseFold \in BOOLEAN
    /\ dirExists = FALSE
    /\ pdf_dir = [n \in Names |-> Absent]
    /\ storeDir = [files |-> FALSE, entries |-> <<>>]
    /\ vector_store = None
    /\ last = NoRequest
    /\ uploads = 0
    /\ storePathExists = FALSE
    /\ boot \in {Fresh(key) : key \in Keys}
    /\ threads = NoThreads

StartNext ==
    \/ Relaunch \/ FindPdfDirectory \/ RagCheckKey \/ RagEmbeddings
    \/ RagMakedirs \/ RagLlm \/ QaAgentInit \/ AnalysisAgentInit
    \/ Upload \/ RemoveDir \/ ProcessDocs \/ Ask \/ Documents

SpecStartup == StartInit /\ [][StartNext]_vars

\* ------------------------------------------------- requests that overlap
\* app.run serves each request on a thread of its own, and no handler and
\* no method of RAGSystem takes a lock: the statements of two requests
\* interleave. A thread is idle or is at a statement of its request, with
\* the documents its loop collected.
Workers == 1..NumThreads
Idle == [pc |-> "idle", op |-> "none", documents |-> <<>>]
Ops == {"process", "ask"}

Goto(t, pc) == threads' = [threads EXCEPT ![t].pc = pc]
Return(t, response) ==
    /\ threads' = [threads EXCEPT ![t] = Idle]
    /\ last' = [op |-> threads[t].op, thread |-> t] @@ response

\* What follows initialize_vector_store: process_docs returns, query goes
\* on to build the retriever and run the chain.
AfterInitialize(t) ==
    IF threads[t].op = "process" THEN "return" ELSE "qa_chain"

\* A request arrives and a thread starts its handler.
Accept(t, op) ==
    /\ Serving
    /\ threads[t].pc = "idle"
    /\ threads' = [threads EXCEPT ![t] =
                     [pc |-> IF op = "process" THEN "process_documents"
                             ELSE "get_retriever",
                      op |-> op, documents |-> <<>>]]
    /\ UNCHANGED <<caseFold, dirExists, pdf_dir, storeDir, vector_store, last,
                   uploads, storePathExists, boot>>

\* process_docs: result = process_documents(PDF_DIR)
Report(t) ==
    /\ threads[t].pc = "process_documents"
    /\ IF process_documents.raised
       THEN Return(t, [status |-> 500, message |-> process_documents.error])
       ELSE Goto(t, "initialize") /\ UNCHANGED last
    /\ UNCHANGED <<caseFold, dirExists, pdf_dir, storeDir, vector_store,
                   uploads, storePathExists, boot>>

\* get_retriever: `if self.vector_store is None`
TestHandle(t) ==
    /\ threads[t].pc = "get_retriever"
    /\ Goto(t, IF vector_store = None THEN "initialize" ELSE "qa_chain")
    /\ UNCHANGED <<caseFold, dirExists, pdf_dir, storeDir, vector_store, last,
                   uploads, storePathExists, boot>>

\* initialize_vector_store: the test that chooses the branch.
TestStore(t) ==
    /\ threads[t].pc = "initialize"
    /\ Goto(t, IF StoreExists THEN "Chroma" ELSE "collect")
    /\ UNCHANGED <<caseFold, dirExists, pdf_dir, storeDir, vector_store, last,
                   uploads, storePathExists, boot>>

\* The load branch: self.vector_store = Chroma(persist_directory=...)
OpenStore(t) ==
    /\ threads[t].pc = "Chroma"
    /\ vector_store' = Handle(storeDir.entries)
    /\ Goto(t, AfterInitialize(t))
    /\ UNCHANGED <<caseFold, dirExists, pdf_dir, storeDir, last, uploads,
                   storePathExists, boot>>

\* The create branch up to the end of its loop: the checks of the source
\* directory and the loading and splitting of every PDF into `documents`.
CollectDocuments ==
    IF ~dirExists
    THEN [raised |-> TRUE, error |-> "FileNotFoundError", documents |-> <<>>]
    ELSE IF ListdirPdfFiles = <<>>
    THEN [raised |-> TRUE, error |-> "ValueError: No PDF files found",
          documents |-> <<>>]
    ELSE LET loop == BuildLoop(ListdirPdfFiles, 1, <<>>, <<>>)
         IN  [raised |-> loop.raised,
              error |-> IF loop.raised THEN "DocumentError" ELSE "",
              documents |-> loop.documents]

Collect(t) ==
    /\ threads[t].pc = "collect"
    /\ \E r \in {CollectDocuments} :
         IF r.raised
         THEN Return(t, [status |-> 500, message |-> r.error])
         ELSE /\ threads' = [threads EXCEPT ![t].pc = "from_documents",
                                            ![t].documents = r.documents]
              /\ UNCHANGED last
    /\ UNCHANGED <<caseFold, dirExists, pdf_dir, storeDir, vector_store,
                   uploads, storePathExists, boot>>

\* self.vector_store = Chroma.from_documents(documents, ...): the chunks
\* are embedded and added to the collection of a new client on the store
\* directory. Whether that client sees what another client added to the
\* same directory, and whether its additions reach the directory before
\* persist, depends on the Chroma version: both are possible.
FromDocuments(t) ==
    /\ threads[t].pc = "from_documents"
    /\ \E shared \in BOOLEAN :
         IF shared
         THEN /\ storeDir' = [files |-> TRUE,
                              entries |-> storeDir.entries
                                          \o threads[t].documents]
              /\ vector_store' = Handle(storeDir'.entries)
         ELSE /\ storeDir' = storeDir
              /\ vector_store' = Handle(threads[t].documents)
    /\ Goto(t, "persist")
    /\ UNCHANGED <<caseFold, dirExists, pdf_dir, last, uploads,
                   storePathExists, boot>>

\* self.vector_store.persist(): what the handle holds is written out.
Persist(t) ==
    /\ threads[t].pc = "persist"
    /\ storeDir' = [files |-> TRUE, entries |-> vector_store.entries]
    /\ Goto(t, AfterInitialize(t))
    /\ UNCHANGED <<caseFold, dirExists, pdf_dir, vector_store, last, uploads,
                   storePathExists, boot>>

\* process_docs returns its report.
ReturnReport(t) ==
    /\ threads[t].pc = "return"
    /\ Return(t, [status |-> 200, details |-> process_documents.report])
    /\ UNCHANGED <<caseFold, dirExists, pdf_dir, storeDir, vector_store,
                   uploads, storePathExists, boot>>

\* query: the retriever on self.vector_store, the chain, the sources.
RunChain(t) ==
    /\ threads[t].pc = "qa_chain"
    /\ \E chain \in {qa_chain(vector_store.entries, "what", "ok")} :
         Return(t, [status |-> 200, answer |-> chain.result,
                    retrieved |-> chain.source_documents,
                    sources |-> SourcesLoop(chain.source_documents, 1, <<>>)])
    /\ UNCHANGED <<caseFold, dirExists, pdf_dir, storeDir, vector_store,
                   uploads, storePathExists, boot>>

ConcInit ==
    /\ caseFold \in BOOLEAN
    /\ dirExists = TRUE
    /\ pdf_dir = [n \in Names |-> Absent]
    /\ storeDir = [files |-> FALSE, entries |-> <<>>]
    /\ vector_store = None
    /\ last = NoRequest
    /\ uploads = 0
    /\ storePathExists = TRUE
    /\ boot = Ready
    /\ threads = [t \in Workers |-> Idle]

ConcNext ==
    \/ Upload
    \/ \E t \in Workers :
         \/ \E op \in Ops : Accept(t, op)
         \/ Report(t) \/ TestHandle(t) \/ TestStore(t) \/ OpenStore(t)
         \/ Collect(t) \/ FromDocuments(t) \/ Persist(t)
         \/ ReturnReport(t) \/ RunChain(t)

SpecConcurrent == ConcInit /\ [][ConcNext]_vars

\* ------------------------------------------------------------------ claims
\* What count() and a search see: the entries of the open handle, or of the
\* persisted store when no handle is open.
IndexEntries ==
    IF vector_store # None THEN vector_store.entries ELSE storeDir.entries
InIndex(chunk) == \E i \in DOMAIN IndexEntries : IndexEntries[i] = chunk

\* The PDFs of the source directory, and the chunks of one of them.
Corpus == {n \in Present : EndsWithPdfLower(n)}
ChunksOf(n) == split_documents(n, pdf_dir[n].pages)
AllChunksIndexed(n) == \A k \in DOMAIN ChunksOf(n) : InIndex(ChunksOf(n)[k])
Range(seq) == {seq[i] : i \in DOMAIN seq}

\* The last request ended because a collaborator (embedding provider,
\* generative model, Chroma storage) raised.
CollaboratorFailed ==
    /\ last.status = 500
    /\ last.message \in {"ProviderError", "StorageError"}

\* C1: failure isolation when building the index. After an ingestion run
\* (process_docs) over a corpus that holds both readable and unreadable
\* PDFs, with every collaborator working, every chunk of every readable PDF
\* is in the vector store.
C1_FailureIsolation ==
    ( /\ last.op = "process"
      /\ ~CollaboratorFailed
      /\ \E n \in Corpus : ~CanLoad(n)
      /\ \E n \in Corpus : CanLoad(n) )
    => \A n \in Corpus : CanLoad(n) => AllChunksIndexed(n)

\* The report of a run: its counts match the discovered files, it has one
\* entry per discovered file, in order, of the right shape.
ReportMatches(report, files) ==
    /\ report.processed = Cardinality({i \in DOMAIN files : CanLoad(files[i])})
    /\ report.failed = Cardinality({i \in DOMAIN files : ~CanLoad(files[i])})
    /\ Len(report.files) = Len(files)
    /\ \A i \in DOMAIN files :
         /\ report.files[i].filename = files[i]
         /\ IF CanLoad(files[i])
            THEN /\ DOMAIN report.files[i] =
                      {"filename", "status", "chunks", "pages"}
                 /\ report.files[i].status = "success"
                 /\ report.files[i].chunks = Len(ChunksOf(files[i]))
                 /\ report.files[i].pages = Len(pdf_dir[files[i]].pages)
            ELSE /\ DOMAIN report.files[i] = {"filename", "status", "error"}
                 /\ report.files[i].status = "failed"
    /\ report.processed =
         Cardinality({i \in DOMAIN report.files :
                        report.files[i].status = "success"})
    /\ report.failed =
         Cardinality({i \in DOMAIN report.files :
                        report.files[i].status = "failed"})

\* The files a report lists with status 'success'.
Succeeded(report) ==
    {report.files[i].filename :
       i \in {j \in DOMAIN report.files : report.files[j].status = "success"}}

\* C2: ingestion report counts. An ingestion run over N >= 1 discovered
\* PDFs of which M fail, with every collaborator working, reports
\* processed = N-M and failed = M with one entry per discovered PDF, and
\* inserts only chunks of the documents it reports as successful.
C2_ReportCounts ==
    ( /\ last.op = "process"
      /\ dirExists
      /\ GlobFiles # <<>>
      /\ ~CollaboratorFailed )
    => /\ last.status = 200
       /\ ReportMatches(last.details, GlobFiles)
       /\ \A i \in DOMAIN last.inserted :
            last.inserted[i].metadata.source \in Succeeded(last.details)

\* C3: ingest always returns a report. An ingestion run on an accessible
\* source directory, with every collaborator working, answers with a
\* report, whatever the directory holds.
C3_AlwaysReports ==
    ( /\ last.op = "process"
      /\ dirExists
      /\ ~CollaboratorFailed )
    => last.status = 200

C5_SourceOrder ==
    (last.op = "ask" /\ last.status = 200)
    => LET ranked == Retrieve(IndexEntries, last.query)
       IN  /\ last.retrieved = ranked
           /\ Len(last.sources) = Len(ranked)
           /\ \A i \in DOMAIN ranked :
                /\ last.sources[i].metadata = ranked[i].metadata
                /\ last.sources[i].content.head.of = ranked[i].text.of

\* C5 witness: an ask returned TopK sources out of a larger index, in an
\* order that is not the order of insertion.
C5_Witness ==
    /\ last.op = "ask"
    /\ last.status = 200
    /\ Len(last.sources) = TopK
    /\ Len(IndexEntries) > TopK
    /\ last.retrieved # SubSeq(IndexEntries, 1, TopK)

\* C6 as stated: source preview. Every preview is at most 150 characters
\* of the chunk followed by the marker, and the marker says that text was
\* cut: a chunk of 150 characters or fewer comes back as its full text.
C6_MarkerOnlyWhenCut ==
    (last.op = "ask" /\ last.status = 200)
    => \A i \in DOMAIN last.sources :
         LET c == last.sources[i].content
             t == last.retrieved[i].text
         IN  /\ StrLen(c) <= PreviewChars + MarkerChars
             /\ t.len <= PreviewChars => c = Concat(t, "")

\* C6 as amended: every preview is the first 150 characters of the chunk
\* (the whole chunk when it has 150 characters or fewer) followed by the
\* marker "...", whether or not text was cut; its length is
\* min(length, 150) + 3.
C6_PreviewAlwaysMarked ==
    (last.op = "ask" /\ last.status = 200)
    => \A i \in DOMAIN last.sources :
         LET c == last.sources[i].content
             t == last.retrieved[i].text
         IN  /\ c.head.of = t.of
             /\ c.head.len = (IF t.len <= PreviewChars THEN t.len
                              ELSE PreviewChars)
             /\ c.tail = "..."
             /\ StrLen(c) = c.head.len + MarkerChars
             /\ StrLen(c) <= PreviewChars + MarkerChars

\* C6 witness: an ask returned a chunk longer than 150 characters, one of
\* exactly 150 and a shorter one.
C6_Witness ==
    /\ last.op = "ask"
    /\ last.status = 200
    /\ \E i \in DOMAIN last.retrieved : last.retrieved[i].text.len > PreviewChars
    /\ \E i \in DOMAIN last.retrieved : last.retrieved[i].text.len = PreviewChars
    /\ \E i \in DOMAIN last.retrieved : last.retrieved[i].text.len < PreviewChars

\* The store directory and the index entries are what they were.
IndexUnchanged == storeDir' = storeDir /\ IndexEntries' = IndexEntries

C8_IndexReflectsReport ==
    (last.op = "process" /\ last.status = 200 /\ IndexEntries # <<>>)
    => \A n \in Succeeded(last.details) : AllChunksIndexed(n)

\* C9: append-only duplication. An ingestion run that follows a successful
\* ingestion run over the same corpus, and succeeds too, doubles count().
C9_ReingestDoubles ==
    [][ ( /\ last.op = "process"
          /\ last.status = 200
          /\ last'.op = "process"
          /\ last'.status = 200
          /\ ProcessDocs )
        => Len(IndexEntries') = 2 * Len(IndexEntries) ]_vars

\* The places of a call in the sequence of calls of a request.
Positions(calls, what) == {i \in DOMAIN calls : calls[i].call = what}

\* C10: persist once per run. A request that inserted entries called
\* from_documents once, after every document was loaded and split, and
\* persist once, as its last call; and when it ended successfully the
\* inserted entries are the persisted ones.
C10_PersistOnce ==
    (last.op \in {"process", "ask"} /\ last.inserted # <<>>)
    => LET calls == last.calls
           n == Len(calls)
       IN  /\ Positions(calls, "persist") = {n}
           /\ Positions(calls, "from_documents") = {n - 1}
           /\ \A i \in 1..(n - 2) : calls[i].call \in {"load", "split"}
           /\ last.status = 200 =>
                (storeDir.files /\ storeDir.entries = last.inserted)

\* C10 witness: a successful ingestion run loaded two files and inserted
\* their chunks.
C10_Witness ==
    /\ last.op = "process"
    /\ last.status = 200
    /\ last.inserted # <<>>
    /\ Cardinality({last.calls[i].file : i \in Positions(last.calls, "load")}) = 2

\* The environments in which one call of a collaborator raises.
Faults == Envs \ {"ok"}

\* The request that answered l made the call that env makes raise: it
\* opened the stored index, embedded the documents, persisted, searched
\* (every ask that succeeds has searched) or called the model.
FailingCallMade(env, l) ==
    \/ env = "load" /\ Positions(l.calls, "Chroma") # {}
    \/ /\ env \in {"embed_clean", "embed_touched"}
       /\ Positions(l.calls, "from_documents") # {}
    \/ /\ env \in {"persist_clean", "persist_touched"}
       /\ Positions(l.calls, "persist") # {}
    \/ env = "search" /\ l.op = "ask" /\ l.status = 200
    \/ env = "llm" /\ l.op = "ask" /\ l.llmCalls > 0

\* C11: provider and storage failures are never silent. A request in which
\* a call of the embedding provider, the generative model or the vector
\* store raised answers 500; so an ask that succeeds made no call that
\* raised and returns the answer the model generated, and an ingestion run
\* that succeeds made no call that raised and leaves an open handle on a
\* persisted store that holds what the run inserted.
C11_FailuresReachCaller ==
    [][ \/ last'.op \notin {"ask", "process"}
        \/ last'.status = 500
        \/ /\ last'.op = "ask"
           /\ last'.status = 200 =>
                (last'.answer = "generated" /\ last'.llmCalls = 1)
           /\ \A env \in Faults :
                FailingCallMade(env, last') => ~ask_question(last'.query, env)
        \/ /\ last'.op = "process"
           /\ vector_store' # None
           /\ storeDir'.files
           /\ last'.inserted # <<>> => storeDir'.entries = last'.inserted
           /\ \A env \in Faults :
                FailingCallMade(env, last') => ~process_docs(env) ]_vars

\* C11 witness: the generative model raised during an ask that had
\* retrieved chunks, and the ask answered 500.
C11_Witness ==
    /\ last.op = "ask"
    /\ last.status = 500
    /\ last.message = "ProviderError"
    /\ last.llmCalls = 1
    /\ IndexEntries # <<>>

\* C12: listing reads only the filesystem. A listing answers 200 and leaves
\* the vector store, the handle and the source directory as they were; it
\* returns one entry per PDF of the source directory, in the directory's
\* order, whatever the index holds; the entry of a file whose metadata
\* cannot be read carries 'error' and every other entry carries the
\* metadata of its file; a missing directory gives the empty list.
C12_ListingReadsFilesystem ==
    [][ last'.op = "list" =>
          /\ storeDir' = storeDir
          /\ vector_store' = vector_store
          /\ pdf_dir' = pdf_dir
          /\ dirExists' = dirExists
          /\ last'.status = 200
          /\ ~dirExists => last'.documents = <<>>
          /\ LET docs == last'.documents
                 files == Listing(Corpus)
             IN  /\ Len(docs) = Len(files)
                 /\ \A i \in DOMAIN files : docs[i].filename = files[i]
                 /\ \A bad \in StatErrors :
                      get_documents(bad) =>
                        \A i \in DOMAIN files :
                          IF files[i] = bad
                          THEN DOMAIN docs[i] = {"filename", "error"}
                          ELSE /\ DOMAIN docs[i] =
                                    {"filename", "size_kb", "modified_date",
                                     "hash"}
                               /\ docs[i].hash =
                                    generate_file_hash(pdf_dir[files[i]])
                               /\ docs[i].size_kb = SizeKb(pdf_dir[files[i]])
      ]_vars

\* C12 witness: a listing of two PDFs, the first with a metadata error and
\* the second with its metadata, while the index holds chunks of the first
\* only.
C12_Witness ==
    /\ last.op = "list"
    /\ Len(last.documents) = 2
    /\ "error" \in DOMAIN last.documents[1]
    /\ "hash" \in DOMAIN last.documents[2]
    /\ IndexEntries # <<>>
    /\ \A i \in DOMAIN IndexEntries :
         IndexEntries[i].metadata.source = last.documents[1].filename

\* The states of a document in an ingestion run and the moves between them.
Terminal == {"Inserted", "Failed"}
Moves ==
    {<<"Pending", "Loading">>, <<"Loading", "Splitting">>,
     <<"Splitting", "Embedding">>, <<"Embedding", "Inserted">>,
     <<"Loading", "Failed">>, <<"Splitting", "Failed">>,
     <<"Embedding", "Failed">>}

\* The states document n went through in the request that answered l, read
\* off the calls the request made, in their order: PyPDFLoader.load on n
\* (Loading, and Failed when it raised), split_documents on its pages
\* (Splitting), Chroma.from_documents on the collected chunks (Embedding,
\* then Inserted when it returned and Failed when it raised).
RECURSIVE Trajectory(_, _, _, _)
Trajectory(n, l, i, t) ==
    IF i > Len(l.calls) THEN t
    ELSE LET c == l.calls[i]
             loaded == \E j \in 1..(i - 1) : l.calls[j] = Call("load", n)
             ev == CASE c = Call("load", n) -> <<"Loading">>
                    [] c = Call("load_failed", n) -> <<"Loading", "Failed">>
                    [] c = Call("split", n) -> <<"Splitting">>
                    [] c.call = "from_documents" /\ loaded ->
                         IF l.inserted # <<>>
                         THEN <<"Embedding", "Inserted">>
                         ELSE <<"Embedding", "Failed">>
                    [] OTHER -> <<>>
         IN  Trajectory(n, l, i + 1, t \o ev)

\* C13: per-document ingestion state machine. In an ingestion run on an
\* accessible source directory every PDF of the directory moves only along
\* Pending -> Loading -> Splitting -> Embedding -> Inserted, or to Failed
\* from Loading, Splitting or Embedding, and has reached Inserted or Failed
\* when the run returns.
C13_DocumentStateMachine ==
    (last.op = "process" /\ dirExists)
    => \A n \in Corpus :
         LET t == Trajectory(n, last, 1, <<"Pending">>)
         IN  /\ \A i \in 1..(Len(t) - 1) : <<t[i], t[i + 1]>> \in Moves
             /\ t[Len(t)] \in Terminal

\* C15: ingestion is rerunnable after a failure. When an ingestion run
\* that was building the index failed because the embedding provider or
\* persist raised, the next ingestion run over the same corpus, with every
\* collaborator working, builds again (it calls from_documents) and ends
\* with every chunk of every readable PDF in the index.
C15_RerunRebuilds ==
    [][ ( /\ last.op = "process"
          /\ last.status = 500
          /\ ~last.hadStore
          /\ last.message \in {"ProviderError", "StorageError"}
          /\ last'.op = "process"
          /\ process_docs("ok") )
        => /\ last'.status = 200
           /\ Positions(last'.calls, "from_documents") # {}
           /\ \A n \in Corpus : CanLoad(n) => AllChunksIndexed(n)' ]_vars

\* C16: top-k bound. Every successful ask returns min(5, count()) sources,
\* so never more than 5, each built from an entry of the index and no entry
\* used twice.
C16_TopKBound ==
    (last.op = "ask" /\ last.status = 200)
    => /\ Len(last.sources) = Min(TopK, Len(IndexEntries))
       /\ Len(last.sources) <= TopK
       /\ Len(last.retrieved) = Len(last.sources)
       /\ \A i \in DOMAIN last.retrieved : InIndex(last.retrieved[i])
       /\ \A i, j \in DOMAIN last.retrieved :
            last.retrieved[i] = last.retrieved[j] => i = j

\* C16 witness: a successful ask on an index of more than 5 entries
\* returned 5 sources.
C16_Witness ==
    /\ last.op = "ask"
    /\ last.status = 200
    /\ Len(IndexEntries) > TopK
    /\ Len(last.sources) = TopK

\* C17: a missing credential is fatal at startup. A process launched
\* without GOOGLE_API_KEY (unset or empty) creates no vector-store
\* directory and writes nothing into it, builds no embeddings or model
\* handle, constructs no agent, opens no index, never serves a route and
\* answers no request: its initialisation stops at the test of the key.
C17_NoCredentialNoService ==
    [][ boot'.key \in {"unset", ""} =>
          /\ storePathExists' = storePathExists
          /\ storeDir' = storeDir
          /\ boot'.pc \in {"find_pdf_directory", "RAGSystem", "raised"}
          /\ ~boot'.embeddings
          /\ ~boot'.llm
          /\ boot'.agents = 0
          /\ vector_store' = None
          /\ last' = NoRequest ]_vars

\* C17 witness: a process launched without the key ended at the test of the
\* key, with PDFs in the source directory and no store directory made.
C17_Witness ==
    /\ boot.pc = "raised"
    /\ boot.key = "unset"
    /\ Corpus # {}
    /\ ~storePathExists

\* A thread has run from_documents in the create branch and has not yet
\* returned from initialize_vector_store.
Inserting(t) == threads[t].pc = "persist"

\* No entry is in a sequence of entries twice.
NoDuplicates(entries) ==
    \A i, j \in DOMAIN entries : entries[i] = entries[j] => i = j

\* C14: single writer. Two overlapping requests never both run the
\* create-and-insert branch of initialize_vector_store, and neither the
\* persisted store nor the open handle ever holds a chunk twice.
C14_SingleWriter ==
    /\ \A t, u \in Workers : (Inserting(t) /\ Inserting(u)) => t = u
    /\ NoDuplicates(storeDir.entries)
    /\ vector_store # None => NoDuplicates(vector_store.entries)

====
